---------------------------- MODULE Spec2Model ----------------------------
(***************************************************************************)
(* RSA attack comparison (rsa-attack-comparison.cpp).                      *)
(*                                                                         *)
(* The numeric core (modExp, primeFactors, totient, modInverse, attack1,   *)
(* attack2) is modelled as operators that compute what the C++ computes,   *)
(* loop by loop.  The menu loop of main is the state machine Spec.  The    *)
(* pure functions are exercised by call specifications whose initial       *)
(* states draw the arguments and whose single step applies the function.   *)
(*                                                                         *)
(* unsigned long long is modelled at a scaled width of Width bits          *)
(* (arithmetic modulo 2^Width); long long values stay far inside their     *)
(* range for the arguments drawn here, so they are plain integers.         *)
(***************************************************************************)
EXTENDS Integers, Sequences, FiniteSets

\* ------------------------------------------------------------------ bounds

\* scaled bit width of unsigned long long
Width == 12
\* attack specifications: e in 0..MaxE, n in 0..MaxN, c in -1..MaxN
MaxE == 7
MaxN == 35
\* modExp calls: base in 0..MaxBase or the largest unsigned value,
\* exponent in 0..MaxExp, modulus in 1..MaxMod
MaxBase == 40
MaxExp == 6
MaxMod == 34
\* modInverse calls: e in 0..MaxInvE, phiN in 0..MaxPhi
MaxInvE == 30
MaxPhi == 24
\* primeFactors calls: x in 0..MaxX
MaxX == 80
\* values an out-of-bounds read of the factor vector may yield: 0..MaxGarbage
MaxGarbage == 1
\* menu loop: sel in 0..MaxSel, e in 0..MaxMenuE, n in 0..MaxMenuN,
\* c in 0..MaxMenuC
MaxSel == 4
MaxMenuE == 2
MaxMenuN == 15
MaxMenuC == 2

\* ------------------------------------------------------- integer semantics

UMod == 2 ^ Width
UMax == UMod - 1

\* conversion long long -> unsigned long long (arguments of modExp, and the
\* comparisons of an unsigned value with a long long)
ToUnsigned(v) == v % UMod

Abs(v) == IF v < 0 THEN -v ELSE v

\* C++ integer division (truncation toward zero) and remainder
CDiv(a, b) ==
    IF (a < 0) = (b < 0) THEN Abs(a) \div Abs(b) ELSE -(Abs(a) \div Abs(b))

CMod(a, b) == a - b * CDiv(a, b)

\* value of attack1 and attack2 when their scan finds nothing
NoSolution == -1

\* ---------------------------------------------------------------- modExp

\* the while loop of modExp: x accumulator, a current square, e exponent
RECURSIVE modExpLoop(_, _, _, _)
modExpLoop(x, a, e, b) ==
    IF e > 0
    THEN modExpLoop(IF e % 2 = 1 THEN ((x * a) % UMod) % b ELSE x,
                    ((a * a) % UMod) % b,
                    e \div 2,
                    b)
    ELSE x

modExp(a, e, b) == modExpLoop(1, a % b, e, b)

\* the products x*a and a*a the loop of modExp forms, before any reduction
RECURSIVE modExpProducts(_, _, _, _)
modExpProducts(x, a, e, b) ==
    IF e > 0
    THEN (IF e % 2 = 1 THEN {x * a} ELSE {}) \cup {a * a}
         \cup modExpProducts(IF e % 2 = 1 THEN ((x * a) % UMod) % b ELSE x,
                             ((a * a) % UMod) % b,
                             e \div 2,
                             b)
    ELSE {}

\* ---------------------------------------------------------- primeFactors

\* while (x % 2 == 0) x /= 2;   (never ends for x = 0)
RECURSIVE Halve(_)
Halve(x) == IF x % 2 = 0 THEN Halve(x \div 2) ELSE x

\* while (x % i == 0) { res.push_back(i); x /= i; }
RECURSIVE DivideOut(_, _, _)
DivideOut(i, x, res) ==
    IF x % i = 0
    THEN DivideOut(i, x \div i, Append(res, i))
    ELSE [x |-> x, res |-> res]

\* for (int i = 3; i <= sqrt(x); i += 2): i <= sqrt(x) iff i*i <= x
RECURSIVE TrialDivision(_, _, _)
TrialDivision(i, x, res) ==
    IF i * i <= x
    THEN LET r == DivideOut(i, x, res) IN TrialDivision(i + 2, r.x, r.res)
    ELSE [x |-> x, res |-> res]

\* the vector res when primeFactors reaches its last two lines (x > 0)
FactorSeq(x) ==
    LET t == TrialDivision(3, Halve(x), <<>>)
    IN  IF t.x > 2 THEN Append(t.res, t.x) ELSE t.res

Garbage == 0 .. MaxGarbage

Crash == [kind |-> "crash", p |-> 0, q |-> 0]
Hang == [kind |-> "hang", p |-> 0, q |-> 0]

\* The outcomes of primeFactors(x, p, q), x >= 0.  p = res[0]; q = res[1]
\* read past the end of res when it holds fewer than two elements, which is
\* undefined: the read yields whatever is there, or the process dies.
primeFactors(x) ==
    IF x = 0 THEN {Hang}
    ELSE LET res == FactorSeq(x)
         IN  IF Len(res) >= 2
             THEN {[kind |-> "ret", p |-> res[1], q |-> res[2]]}
             ELSE IF Len(res) = 1
             THEN {Crash} \cup
                  {[kind |-> "ret", p |-> res[1], q |-> g] : g \in Garbage}
             ELSE {Crash} \cup
                  {[kind |-> "ret", p |-> g, q |-> h] : g \in Garbage, h \in Garbage}

\* ---------------------------------------------------------------- totient

totient(p, q) == (p - 1) * (q - 1)

\* ------------------------------------------------------------- modInverse

\* the while loop of modInverse
RECURSIVE EuclidLoop(_, _, _, _, _)
EuclidLoop(a, b, d, y, i) ==
    IF b # 0
    THEN EuclidLoop(b, CMod(a, b), y, d + CDiv(a, b) * y, -i)
    ELSE [a |-> a, d |-> d, i |-> i]

\* modInverse with the sign normalisation left out (res = d always)
modInverseNoSign(e, phiN) ==
    LET r == EuclidLoop(e, phiN, 1, 0, 1)
    IN  IF r.a # 1 THEN 0 ELSE r.d

\* modInverse with the test a != 1 left out
modInverseNoGcdTest(e, phiN) ==
    LET r == EuclidLoop(e, phiN, 1, 0, 1)
    IN  IF r.i < 0 THEN phiN - r.d ELSE r.d

modInverse(e, phiN) ==
    LET r == EuclidLoop(e, phiN, 1, 0, 1)
    IN  IF r.a # 1 THEN 0
        ELSE IF r.i < 0 THEN phiN - r.d
        ELSE r.d

\* ---------------------------------------------------------------- attack1

RECURSIVE attack1Scan(_, _, _, _)
attack1Scan(m, e, n, c) ==
    IF m < n
    THEN IF modExp(ToUnsigned(m), e, ToUnsigned(n)) = ToUnsigned(c)
         THEN m
         ELSE attack1Scan(m + 1, e, n, c)
    ELSE NoSolution

\* attack1 with the scan started at m = 1
attack1FromOne(e, n, c) == attack1Scan(1, e, n, c)

attack1(e, n, c) == attack1Scan(0, e, n, c)

\* ---------------------------------------------------------------- attack2

\* for (m = 0; m < n; m++) if (ptext == m) return m;  return -1;
RECURSIVE attack2Scan(_, _, _)
attack2Scan(m, ptext, n) ==
    IF m < n
    THEN IF ptext = ToUnsigned(m) THEN m ELSE attack2Scan(m + 1, ptext, n)
    ELSE NoSolution

\* attack2 once primeFactors has returned p and q
attack2After(e, n, c, p, q) ==
    LET d == modInverse(e, totient(p, q))
        ptext == modExp(ToUnsigned(c), d, ToUnsigned(n))
    IN  [kind |-> "ret", m |-> attack2Scan(0, ptext, n), p |-> p, q |-> q, d |-> d]

\* the outcomes of attack2(e, n, c, p, q, d)
attack2(e, n, c) ==
    { IF f.kind = "ret"
      THEN attack2After(e, n, c, f.p, f.q)
      ELSE [kind |-> f.kind, m |-> 0, p |-> 0, q |-> 0, d |-> 0]
      : f \in primeFactors(n) }

\* ------------------------------------------------------------------ state

VARIABLES
    sel,    \* main: the menu selection read last
    e,      \* main: encryption exponent read last
    n,      \* main: modulus read last
    c,      \* main: ciphertext read last
    m,      \* main: the plaintext the last attack returned
    out,    \* the Result block the last iteration printed (<<>>: none)
    pc,     \* "menu", "exited", "crashed" or "hung"
    fn,     \* call specifications: the function called
    arg,    \* its arguments
    st,     \* "pending", then "ret", "crash" or "hang"
    res     \* what it returned

mainVars == <<sel, e, n, c, m, out, pc>>
callVars == <<fn, arg, st, res>>
vars == <<sel, e, n, c, m, out, pc, fn, arg, st, res>>

MainInit ==
    /\ sel = 0 /\ e = 0 /\ n = 0 /\ c = 0 /\ m = 0
    /\ out = <<>>
    /\ pc = "menu"

NoCall ==
    /\ fn = "none" /\ arg = <<>> /\ st = "idle" /\ res = <<>>

\* -------------------------------------------------------------- menu loop

Init == MainInit /\ NoCall

\* case 1: readInput, m = attack1(e, n, c), print m
Case1(ie, in, ic) ==
    /\ pc = "menu"
    /\ sel' = 1 /\ e' = ie /\ n' = in /\ c' = ic
    /\ m' = attack1(ie, in, ic)
    /\ out' = <<m'>>
    /\ pc' = "menu"
    /\ UNCHANGED callVars

\* case 2: readInput, m = attack2(e, n, c, p, q, d), print m, p, q, d
Case2(ie, in, ic) ==
    /\ pc = "menu"
    /\ sel' = 2 /\ e' = ie /\ n' = in /\ c' = ic
    /\ \E r \in attack2(ie, in, ic) :
          IF r.kind = "ret"
          THEN /\ m' = r.m
               /\ out' = <<r.m, r.p, r.q, r.d>>
               /\ pc' = "menu"
          ELSE /\ m' = m
               /\ out' = <<>>
               /\ pc' = IF r.kind = "crash" THEN "crashed" ELSE "hung"
    /\ UNCHANGED callVars

\* case 3: print Goodbye; the loop condition sel != 3 ends the loop
Case3 ==
    /\ pc = "menu"
    /\ sel' = 3
    /\ out' = <<>>
    /\ pc' = "exited"
    /\ UNCHANGED <<e, n, c, m>>
    /\ UNCHANGED callVars

\* default: any other selection prints an error and loops
Default(s) ==
    /\ pc = "menu"
    /\ s \notin {1, 2, 3}
    /\ sel' = s
    /\ out' = <<>>
    /\ pc' = "menu"
    /\ UNCHANGED <<e, n, c, m>>
    /\ UNCHANGED callVars

Next ==
    \/ \E ie \in 0 .. MaxMenuE, in \in 0 .. MaxMenuN, ic \in 0 .. MaxMenuC :
          Case1(ie, in, ic)
    \/ \E ie \in 0 .. MaxMenuE, in \in 0 .. MaxMenuN, ic \in 0 .. MaxMenuC :
          Case2(ie, in, ic)
    \/ Case3
    \/ \E s \in 0 .. MaxSel : Default(s)

Spec == Init /\ [][Next]_vars

\* ------------------------------------------------- calls of the two attacks

AttackInit ==
    /\ MainInit
    /\ fn \in {"attack1", "attack2"}
    /\ arg \in (0 .. MaxE) \X (0 .. MaxN) \X (-1 .. MaxN)
    /\ st = "pending"
    /\ res = <<>>

CallAttack1 ==
    /\ fn = "attack1" /\ st = "pending"
    /\ st' = "ret"
    /\ res' = <<attack1(arg[1], arg[2], arg[3])>>
    /\ UNCHANGED <<fn, arg>>
    /\ UNCHANGED mainVars

CallAttack2 ==
    /\ fn = "attack2" /\ st = "pending"
    /\ \E r \in attack2(arg[1], arg[2], arg[3]) :
          /\ st' = r.kind
          /\ res' = IF r.kind = "ret" THEN <<r.m, r.p, r.q, r.d>> ELSE <<>>
    /\ UNCHANGED <<fn, arg>>
    /\ UNCHANGED mainVars

AttackNext == CallAttack1 \/ CallAttack2

AttackSpec == AttackInit /\ [][AttackNext]_vars

\* --------------------------------------------------------- calls of modExp

ModExpInit ==
    /\ MainInit
    /\ fn = "modExp"
    /\ arg \in ((0 .. MaxBase) \cup {UMax}) \X (0 .. MaxExp) \X (1 .. MaxMod)
    /\ st = "pending"
    /\ res = <<>>

CallModExp ==
    /\ fn = "modExp" /\ st = "pending"
    /\ st' = "ret"
    /\ res' = <<modExp(arg[1], arg[2], arg[3])>>
    /\ UNCHANGED <<fn, arg>>
    /\ UNCHANGED mainVars

ModExpNext == CallModExp

ModExpSpec == ModExpInit /\ [][ModExpNext]_vars

\* ----------------------------------------------------- calls of modInverse

ModInverseInit ==
    /\ MainInit
    /\ fn = "modInverse"
    /\ arg \in (0 .. MaxInvE) \X (0 .. MaxPhi)
    /\ st = "pending"
    /\ res = <<>>

CallModInverse ==
    /\ fn = "modInverse" /\ st = "pending"
    /\ st' = "ret"
    /\ res' = <<modInverse(arg[1], arg[2])>>
    /\ UNCHANGED <<fn, arg>>
    /\ UNCHANGED mainVars

ModInverseNext == CallModInverse

ModInverseSpec == ModInverseInit /\ [][ModInverseNext]_vars

\* --------------------------------------------------- calls of primeFactors

PrimeFactorsInit ==
    /\ MainInit
    /\ fn = "primeFactors"
    /\ arg \in {<<x>> : x \in 0 .. MaxX}
    /\ st = "pending"
    /\ res = <<>>

CallPrimeFactors ==
    /\ fn = "primeFactors" /\ st = "pending"
    /\ \E r \in primeFactors(arg[1]) :
          /\ st' = r.kind
          /\ res' = IF r.kind = "ret" THEN <<r.p, r.q>> ELSE <<>>
    /\ UNCHANGED <<fn, arg>>
    /\ UNCHANGED mainVars

PrimeFactorsNext == CallPrimeFactors

PrimeFactorsSpec == PrimeFactorsInit /\ [][PrimeFactorsNext]_vars

\* ------------------------------------------- mathematics the claims refer to

IsPrime(k) == k >= 2 /\ \A j \in 2 .. (k - 1) : k % j # 0

LeastDivisor(k) == CHOOSE j \in 2 .. k : k % j = 0 /\ \A i \in 2 .. (j - 1) : k % i # 0

\* k is a product of exactly two primes (equal or not)
IsSemiprime(k) == k >= 4 /\ LeastDivisor(k) < k /\ IsPrime(k \div LeastDivisor(k))

SmallPrime(k) == LeastDivisor(k)
LargePrime(k) == k \div LeastDivisor(k)

\* (p-1)(q-1) for the semiprime k = p*q
Phi(k) == (SmallPrime(k) - 1) * (LargePrime(k) - 1)

RECURSIVE Gcd(_, _)
Gcd(a, b) == IF b = 0 THEN a ELSE Gcd(b, a % b)

\* a^k mod b, by k multiplications
RECURSIVE PowMod(_, _, _)
PowMod(a, k, b) == IF k = 0 THEN 1 % b ELSE ((a % b) * PowMod(a, k - 1, b)) % b

Min(S) == CHOOSE v \in S : \A w \in S : v <= w

AttackCalled == fn \in {"attack1", "attack2"} /\ st # "pending"

\* ------------------------------------------------------------------ claims

\* C1: for every semiprime n = p*q with p # q, every e coprime to (p-1)(q-1)
\* and every m in [0, n), with c = m^e mod n, attack1 and attack2 on (e, n, c)
\* both return m.
C1_RoundTrip ==
    (AttackCalled /\ IsSemiprime(arg[2]) /\ SmallPrime(arg[2]) # LargePrime(arg[2])
        /\ Gcd(arg[1], Phi(arg[2])) = 1)
    => \A m0 \in 0 .. (arg[2] - 1) :
          arg[3] = PowMod(m0, arg[1], arg[2]) => (st = "ret" /\ res[1] = m0)

\* The round trip restricted to odd n (both primes odd): holds.
RoundTripOddModulus ==
    (AttackCalled /\ IsSemiprime(arg[2]) /\ SmallPrime(arg[2]) # LargePrime(arg[2])
        /\ arg[2] % 2 = 1 /\ Gcd(arg[1], Phi(arg[2])) = 1)
    => \A m0 \in 0 .. (arg[2] - 1) :
          arg[3] = PowMod(m0, arg[1], arg[2]) => (st = "ret" /\ res[1] = m0)

\* C2: for every semiprime x (even x = 2*q and squares x = p*p included)
\* primeFactors returns p and q with p*q = x, both prime.
C2_FactorCorrect ==
    (fn = "primeFactors" /\ st # "pending" /\ IsSemiprime(arg[1]))
    => (st = "ret" /\ res[1] * res[2] = arg[1] /\ IsPrime(res[1]) /\ IsPrime(res[2]))

\* Factor correctness restricted to odd semiprimes: holds.
FactorCorrectOdd ==
    (fn = "primeFactors" /\ st # "pending" /\ IsSemiprime(arg[1]) /\ arg[1] % 2 = 1)
    => (st = "ret" /\ res[1] * res[2] = arg[1] /\ IsPrime(res[1]) /\ IsPrime(res[2]))

\* C3: whenever trial division of n yields a factor sequence that does not
\* hold exactly two elements, attack2 ends with the MalformedModulus error
\* and returns neither factors nor a plaintext.
C3_MalformedModulus ==
    (fn = "attack2" /\ st # "pending" /\ arg[2] >= 1 /\ Len(FactorSeq(arg[2])) # 2)
    => (st = "MalformedModulus" /\ res = <<>>)

\* C4 as stated: for e >= 1, phiN >= 1 with gcd(e, phiN) = 1, modInverse
\* returns d with 0 <= d < phiN and e*d = 1 (mod phiN).
C4_InverseInRange ==
    (fn = "modInverse" /\ st = "ret" /\ arg[1] >= 1 /\ arg[2] >= 1
        /\ Gcd(arg[1], arg[2]) = 1)
    => (0 <= res[1] /\ res[1] < arg[2] /\ (arg[1] * res[1] - 1) % arg[2] = 0)

\* C4 amended: for e >= 1, phiN >= 1 with gcd(e, phiN) = 1, modInverse
\* returns d with e*d = 1 (mod phiN) and 0 < d <= phiN, where d < phiN
\* whenever phiN >= 2 (for phiN = 1 it returns 1).
C4_InversePositive ==
    (fn = "modInverse" /\ st = "ret" /\ arg[1] >= 1 /\ arg[2] >= 1
        /\ Gcd(arg[1], arg[2]) = 1)
    => /\ (arg[1] * res[1] - 1) % arg[2] = 0
       /\ 0 < res[1] /\ res[1] <= arg[2]
       /\ (arg[2] >= 2 => res[1] < arg[2])

\* modInverse(5, 3), a call with e > phiN, has returned 2
C4_Witness ==
    fn = "modInverse" /\ st = "ret" /\ arg = <<5, 3>> /\ res = <<2>>

\* C5: for every semiprime n and every e with gcd(e, (p-1)(q-1)) # 1, attack2
\* ends with the NoModularInverse error and returns no plaintext and no d.
C5_NoInversePropagated ==
    (fn = "attack2" /\ st # "pending" /\ IsSemiprime(arg[2])
        /\ Gcd(arg[1], Phi(arg[2])) # 1)
    => (st = "NoModularInverse" /\ res = <<>>)

\* The no-inverse case for odd n alone, where primeFactors returns the true
\* factors: attack2 still returns a plaintext (violated).
NoInversePropagatedOdd ==
    (fn = "attack2" /\ st # "pending" /\ IsSemiprime(arg[2]) /\ arg[2] % 2 = 1
        /\ Gcd(arg[1], Phi(arg[2])) # 1)
    => (st = "NoModularInverse" /\ res = <<>>)

\* C6: for e >= 0, n >= 1 and any c, attack1 returns the least m in [0, n)
\* with modExp(m, e, n) = c when there is one, and NoSolution exactly when
\* there is none; NoSolution is no candidate plaintext.
C6_BruteForceScan ==
    (fn = "attack1" /\ st # "pending" /\ arg[2] >= 1)
    => LET S == {m0 \in 0 .. (arg[2] - 1) : modExp(m0, arg[1], arg[2]) = arg[3]}
       IN  /\ st = "ret"
           /\ S # {} => res[1] = Min(S)
           /\ S = {} <=> res[1] = NoSolution
           /\ NoSolution \notin 0 .. (arg[2] - 1)

\* attack1(2, 15, 4) has returned 2, the least of the square roots 2, 7, 8, 13
C6_Witness ==
    fn = "attack1" /\ st = "ret" /\ arg = <<2, 15, 4>> /\ res = <<2>>

\* C7: for base >= 0, exponent >= 0 and modulus >= 1, modExp returns exactly
\* base^exponent mod modulus.
C7_ExpCorrect ==
    (fn = "modExp" /\ st = "ret") => res[1] = PowMod(arg[1], arg[2], arg[3])

\* Exponentiation correctness away from (exponent 0, modulus 1): holds.
ExpCorrectNonDegenerate ==
    (fn = "modExp" /\ st = "ret" /\ (arg[2] >= 1 \/ arg[3] >= 2))
    => res[1] = PowMod(arg[1], arg[2], arg[3])

\* C8: every attack started from the menu finishes and control is back at
\* the menu; the loop ends only when option 3 is selected.
C8_NoFailureFatal ==
    /\ pc \in {"menu", "exited"}
    /\ pc = "exited" => sel = 3

\* C9: for a modulus n with 1 <= n <= 2^(Width/2 - 1), every product modExp
\* forms is below 2^Width and modExp returns the exact base^exponent mod n.
C9_NoSilentOverflow ==
    (fn = "modExp" /\ st = "ret" /\ arg[3] <= 2 ^ ((Width \div 2) - 1))
    => /\ \A pr \in modExpProducts(1, arg[1] % arg[3], arg[2], arg[3]) : pr < UMod
       /\ res[1] = PowMod(arg[1], arg[2], arg[3])

\* The products alone: none reaches 2^Width for n <= 2^(Width/2 - 1): holds.
ProductsBelowWidth ==
    (fn = "modExp" /\ st = "ret" /\ arg[3] <= 2 ^ ((Width \div 2) - 1))
    => \A pr \in modExpProducts(1, arg[1] % arg[3], arg[2], arg[3]) : pr < UMod

\* C10: for e >= 1 and phiN >= 1, modInverse returns 0 if and only if
\* gcd(e, phiN) # 1.
C10_ZeroIffNoInverse ==
    (fn = "modInverse" /\ st = "ret" /\ arg[1] >= 1 /\ arg[2] >= 1)
    => (res[1] = 0 <=> Gcd(arg[1], arg[2]) # 1)

\* modInverse(2, 4) has returned 0
C10_Witness ==
    fn = "modInverse" /\ st = "ret" /\ arg = <<2, 4>> /\ res = <<0>>

=============================================================================
